---------------------------- MODULE Spec2Model ----------------------------
(***************************************************************************)
(* Model of the worker pool and task dispatch of src/src/model_pool.py     *)
(* (class ModelPool): the instance registry, the bounded task queue, the   *)
(* _process_queue coroutines and the futures of the queued tasks.          *)
(*                                                                         *)
(* All pool state is mutated on the asyncio event loop, so one action is   *)
(* the code a coroutine runs between two suspension points (await of a     *)
(* sleep, of run_in_executor, of a task).  The inference itself runs in an *)
(* executor thread and touches no pool state; its outcome is an input.     *)
(*                                                                         *)
(* The /asr handler of src/src/api_multi_instance.py (segmentation,        *)
(* gather of the segment requests, SRT output) is a second specification,  *)
(* AsrSpec, in which the pool is at rest and the outcome of every          *)
(* process_request call is an input; under Spec no /asr request is         *)
(* handled.                                                                *)
(***************************************************************************)
EXTENDS Integers, Sequences, FiniteSets, TLC

(***************************************************************************)
(* Bounds of the model.                                                    *)
(***************************************************************************)
\* num_instances ranges over 1..MaxInstances (ModelPool.__init__ argument).
MaxInstances == 2
\* Number of enqueue_task calls made over a run.
MaxTasks == 3
\* self.queue_capacity (5000 in model_pool.py:121), scaled down.
queue_capacity == 2
\* Number of _process_queue coroutines created over a run.
MaxProcessors == 3
\* time.time() readings are 0..MaxClock; the clock saturates at MaxClock.
MaxClock == 1
\* Positions in the audio are 0..MaxTime milliseconds.
MaxTime == 4
\* max_duration of create_optimal_segments ranges over 1..MaxDuration.
MaxDuration == 2
\* Number of segments the voice activity detection returns, at most.
MaxVadSegments == 2

Tasks == 1..MaxTasks
Processors == 1..MaxProcessors

VARIABLES
    instances,            \* self.instances: sequence of ModelInstance records
    task_queue,           \* self.task_queue: deque of tasks (task ids)
    is_processing_queue,  \* self.is_processing_queue
    queue_processor_task, \* self.queue_processor_task: 0 (None) or a coroutine id
    total_requests,       \* self.total_requests
    successful_requests,  \* self.successful_requests
    failed_requests,      \* self.failed_requests
    future,               \* QueueTask.future of every task
    proc,                 \* the _process_queue coroutines: position and locals
    must_cancel,          \* asyncio cancellation requested on a coroutine
    stop_waiting,         \* stop_queue_processor: the coroutine it awaits, or 0
    now,                  \* last reading of time.time()
    shutdown_called,      \* history: shutdown() has been called
    set_calls,            \* history: the set_result/set_exception calls, in order
    dequeued,             \* history: the tasks popped from the queue, in order
    failed_on,            \* history: per task, the instances whose inference failed
    queued_at_shutdown,   \* history: the tasks that were queued when shutdown() was called
    ever_error,           \* history: the instances whose status has been ERROR
    response,             \* per task, where its process_request call stands
    report,               \* what the monitoring endpoint called in the last step returned
    asr_pc,               \* position of the /asr handler
    vad_segments,         \* segments[0]['value']: the [start, end] pairs of the VAD
    max_duration,         \* max_duration argument of create_optimal_segments
    optimal_segments,     \* optimal_segments of the /asr handler
    segment_results,      \* results of the process_segment_async calls, by position
    srts,                 \* srts of the /asr handler
    out_of_order          \* history: a segment completed before one of lower index

vars == <<instances, task_queue, is_processing_queue, queue_processor_task,
          total_requests, successful_requests, failed_requests, future, proc,
          must_cancel, stop_waiting, now, shutdown_called, set_calls,
          dequeued, failed_on, queued_at_shutdown, ever_error, response,
          report, asr_pc, vad_segments, max_duration, optimal_segments,
          segment_results, srts, out_of_order>>

poolVars == <<instances, total_requests, successful_requests, failed_requests, now>>
histVars == <<set_calls, dequeued, failed_on>>
ghostVars == <<queued_at_shutdown, ever_error>>
asrVars == <<asr_pc, vad_segments, max_duration, optimal_segments,
             segment_results, srts, out_of_order>>

(***************************************************************************)
(* ModelInstance and its methods.                                          *)
(***************************************************************************)
InstanceStatus == {"idle", "busy", "loading", "error"}

\* ModelInstance as constructed: status LOADING, model None, counters 0.
ModelInstance ==
    [status |-> "loading", model |-> FALSE, last_used |-> 0,
     request_count |-> 0, error_count |-> 0]

\* A reading of time.time() made after the reading t: never earlier.
TimeAfter(t) == IF t < MaxClock THEN {t, t + 1} ELSE {t}

\* Mutant of mark_busy: the request is not counted on the instance.
mark_busy_uncounted(inst, t) ==
    [inst EXCEPT !.status = "busy", !.last_used = t]

\* Mutant of mark_busy: the status is left as it was.
mark_busy_without_status(inst, t) ==
    [inst EXCEPT !.request_count = inst.request_count + 1,
                 !.last_used = t]

mark_busy(inst, t) ==
    [inst EXCEPT !.status = "busy",
                 !.request_count = inst.request_count + 1,
                 !.last_used = t]

mark_idle(inst, t) ==
    [inst EXCEPT !.status = "idle", !.last_used = t]

InstanceIds == DOMAIN instances
num_instances == Len(instances)

(***************************************************************************)
(* The instance registry.  The operations take and return the registry     *)
(* state P = [instances, total_requests, successful_requests,              *)
(* failed_requests], so that a coroutine step can chain several of them.   *)
(***************************************************************************)
Pool ==
    [instances |-> instances, total_requests |-> total_requests,
     successful_requests |-> successful_requests,
     failed_requests |-> failed_requests]

\* idle_instances = [inst for inst in self.instances if inst.status == IDLE]
idle_instances(insts) == {i \in DOMAIN insts : insts[i].status = "idle"}

\* Mutant of selected_instance: the first idle instance, whatever its last_used.
selected_instance_first(insts) ==
    CHOOSE i \in idle_instances(insts) : \A j \in idle_instances(insts) : i <= j

\* min(idle_instances, key=lambda x: x.last_used): the first of the minimal ones.
selected_instance(insts) ==
    CHOOSE i \in idle_instances(insts) :
        \A j \in idle_instances(insts) :
            \/ insts[i].last_used < insts[j].last_used
            \/ (insts[i].last_used = insts[j].last_used /\ i <= j)

\* Mutant of get_idle_instance: the request is counted before the search.
get_idle_instance_counted(P, t) ==
    IF idle_instances(P.instances) = {}
    THEN [selected |-> 0, pool |-> [P EXCEPT !.total_requests = @ + 1]]
    ELSE LET s == selected_instance(P.instances)
         IN  [selected |-> s,
              pool |-> [P EXCEPT !.instances[s] = mark_busy(@, t),
                                 !.total_requests = @ + 1]]

\* get_idle_instance at time t: the selected id (0 for None) and the new registry.
get_idle_instance(P, t) ==
    IF idle_instances(P.instances) = {}
    THEN [selected |-> 0, pool |-> P]
    ELSE LET s == selected_instance(P.instances)
         IN  [selected |-> s,
              pool |-> [P EXCEPT !.instances[s] = mark_busy(@, t),
                                 !.total_requests = @ + 1]]

\* Mutant of release_instance: the success is not counted.
release_instance_uncounted(P, instance_id, t) ==
    IF instance_id \in DOMAIN P.instances
    THEN [P EXCEPT !.instances[instance_id] = mark_idle(@, t)]
    ELSE P

\* Mutant of release_instance: the request is counted at completion too.
release_instance_counted(P, instance_id, t) ==
    IF instance_id \in DOMAIN P.instances
    THEN [P EXCEPT !.instances[instance_id] =
                       [mark_idle(@, t) EXCEPT !.request_count = @ + 1],
                   !.successful_requests = @ + 1]
    ELSE P

release_instance(P, instance_id, t) ==
    IF instance_id \in DOMAIN P.instances
    THEN [P EXCEPT !.instances[instance_id] = mark_idle(@, t),
                   !.successful_requests = @ + 1]
    ELSE P

\* Mutant of handle_instance_error: the failed instance is handed back as idle.
handle_instance_error_idle(P, instance_id) ==
    IF instance_id \in DOMAIN P.instances
    THEN [P EXCEPT !.instances[instance_id].status = "idle",
                   !.instances[instance_id].error_count = @ + 1,
                   !.failed_requests = @ + 1]
    ELSE P

\* Mutant of handle_instance_error: the failure is not counted.
handle_instance_error_uncounted(P, instance_id) ==
    IF instance_id \in DOMAIN P.instances
    THEN [P EXCEPT !.instances[instance_id].status = "error"]
    ELSE P

handle_instance_error(P, instance_id) ==
    IF instance_id \in DOMAIN P.instances
    THEN [P EXCEPT !.instances[instance_id].status = "error",
                   !.instances[instance_id].error_count = @ + 1,
                   !.failed_requests = @ + 1]
    ELSE P

shutdown(P) ==
    [P EXCEPT !.instances =
        [i \in DOMAIN P.instances |->
            IF P.instances[i].model
            THEN [P.instances[i] EXCEPT !.model = FALSE, !.status = "error"]
            ELSE P.instances[i]]]

\* Write a registry state back to the variables.
SetPool(P, t) ==
    /\ instances' = P.instances
    /\ total_requests' = P.total_requests
    /\ successful_requests' = P.successful_requests
    /\ failed_requests' = P.failed_requests
    /\ now' = t

\* The last step was no call of a monitoring endpoint.
NoReport == [op |-> "none"]

(***************************************************************************)
(* ASRRequestHandler.process_request, the only caller of enqueue_task.     *)
(* It awaits the future enqueue_task returned: on a pending future it is   *)
(* suspended, on a done one the await returns the result or raises the     *)
(* exception at once, and `except Exception` turns the exception into a    *)
(* failure.  The continuation reads nothing but the future, so the return  *)
(* is recorded in the step that resolves the future.                       *)
(***************************************************************************)
\* process_request has not been called for the task.
NotCalled == [pc |-> "none"]

\* Mutant of process_request: the exception of the future is not caught.
process_request_uncaught(fut) ==
    IF fut = "pending" THEN [pc |-> "awaiting"]
    ELSE IF fut = "result"
         THEN [pc |-> "returned", success |-> TRUE, value |-> "text"]
         ELSE [pc |-> "raised"]

\* Where process_request stands on a future in state fut.
process_request(fut) ==
    IF fut = "pending" THEN [pc |-> "awaiting"]
    ELSE IF fut = "result"
         THEN [pc |-> "returned", success |-> TRUE, value |-> "text"]
         ELSE [pc |-> "returned", success |-> FALSE,
               value |-> IF fut = "queue_full" THEN "Queue full" ELSE "error"]

(***************************************************************************)
(* Initial state: ModelPool.__init__.                                      *)
(***************************************************************************)
PoolInit ==
    /\ \E n \in 1..MaxInstances : instances = [i \in 1..n |-> ModelInstance]
    /\ task_queue = <<>>
    /\ is_processing_queue = FALSE
    /\ queue_processor_task = 0
    /\ total_requests = 0
    /\ successful_requests = 0
    /\ failed_requests = 0
    /\ future = [t \in Tasks |-> "none"]
    /\ proc = [d \in Processors |-> [pc |-> "none", task |-> 0, instance |-> 0, model |-> FALSE]]
    /\ must_cancel = [d \in Processors |-> FALSE]
    /\ stop_waiting = 0
    /\ now = 0
    /\ shutdown_called = FALSE
    /\ set_calls = <<>>
    /\ dequeued = <<>>
    /\ failed_on = [t \in Tasks |-> {}]
    /\ queued_at_shutdown = {}
    /\ ever_error = {}
    /\ response = [t \in Tasks |-> NotCalled]
    /\ report = NoReport

\* No /asr request is being handled.
AsrIdle ==
    /\ asr_pc = "idle"
    /\ vad_segments = <<>>
    /\ max_duration = 1
    /\ optimal_segments = <<>>
    /\ segment_results = <<>>
    /\ srts = <<>>
    /\ out_of_order = FALSE

Init == PoolInit /\ AsrIdle

(***************************************************************************)
(* load_all_models: one load_single_instance per instance.  It is called   *)
(* once (api_multi_instance.py:68); an instance stays LOADING exactly      *)
(* until its load returns, so the status tells whether the load is still   *)
(* in flight.                                                              *)
(***************************************************************************)
LoadSucceeds(i) ==
    /\ report' = NoReport
    /\ UNCHANGED asrVars
    /\ UNCHANGED response
    /\ UNCHANGED ghostVars
    /\ instances[i].status = "loading"
    /\ \E t \in TimeAfter(now) :
        /\ instances' = [instances EXCEPT ![i].model = TRUE,
                                          ![i].status = "idle",
                                          ![i].last_used = t]
        /\ now' = t
    /\ UNCHANGED <<task_queue, is_processing_queue, queue_processor_task,
                   total_requests, successful_requests, failed_requests,
                   future, proc, must_cancel, stop_waiting, shutdown_called,
                   histVars>>

LoadFails(i) ==
    /\ report' = NoReport
    /\ UNCHANGED asrVars
    /\ UNCHANGED response
    /\ ever_error' = ever_error \cup {i}
    /\ UNCHANGED queued_at_shutdown
    /\ instances[i].status = "loading"
    /\ instances' = [instances EXCEPT ![i].status = "error",
                                      ![i].error_count = @ + 1]
    /\ UNCHANGED <<task_queue, is_processing_queue, queue_processor_task,
                   total_requests, successful_requests, failed_requests,
                   future, proc, must_cancel, stop_waiting, now,
                   shutdown_called, histVars>>

\* load_all_models has returned.  The server awaits it in its startup handler
\* (api_multi_instance.py:68, 184-189), before any request is served and
\* before the shutdown handler can run.
ModelsLoaded == \A i \in InstanceIds : instances[i].status # "loading"

(***************************************************************************)
(* shutdown(), called once by the shutdown handler of the server           *)
(* (api_multi_instance.py:195-201).  A second call would find every model  *)
(* None and change nothing.                                                *)
(***************************************************************************)
Shutdown ==
    /\ report' = NoReport
    /\ UNCHANGED asrVars
    /\ UNCHANGED response
    /\ ModelsLoaded
    /\ ~shutdown_called
    /\ queued_at_shutdown' = queued_at_shutdown \cup {task_queue[k] : k \in DOMAIN task_queue}
    /\ ever_error' = ever_error \cup {i \in InstanceIds : instances[i].model}
    /\ SetPool(shutdown(Pool), now)
    /\ shutdown_called' = TRUE
    /\ UNCHANGED <<task_queue, is_processing_queue, queue_processor_task,
                   future, proc, must_cancel, stop_waiting, histVars>>

(***************************************************************************)
(* enqueue_task.  The coroutine has no suspension point, so the capacity   *)
(* check, the append and the creation of the processor are one step.       *)
(***************************************************************************)
\* The task the next enqueue_task call creates: tasks are numbered in call order.
NewTask == CHOOSE t \in Tasks : future[t] = "none" /\ \A u \in Tasks : u < t => future[u] # "none"

\* The coroutine the next asyncio.create_task(self._process_queue()) creates.
NewProcessor == CHOOSE d \in Processors : proc[d].pc = "none" /\ \A e \in Processors : e < d => proc[e].pc # "none"

\* Mutant of QueueFull: > instead of >=.
QueueFull_past_capacity(queue) == Len(queue) > queue_capacity

\* Mutant of QueueFull: the queue is taken as full one task early.
QueueFull_one_early(queue) == Len(queue) >= queue_capacity - 1

\* len(self.task_queue) >= self.queue_capacity
QueueFull(queue) == Len(queue) >= queue_capacity

EnqueueTask ==
    /\ report' = NoReport
    /\ UNCHANGED asrVars
    /\ UNCHANGED ghostVars
    /\ ModelsLoaded
    /\ \E t \in Tasks : future[t] = "none"
    /\ LET task == NewTask IN
        IF QueueFull(task_queue)
        THEN /\ future' = [future EXCEPT ![task] = "queue_full"]
             /\ response' = [response EXCEPT ![task] = process_request("queue_full")]
             /\ set_calls' = Append(set_calls, [task |-> task, kind |-> "exception"])
             /\ UNCHANGED <<task_queue, proc, queue_processor_task>>
        ELSE /\ task_queue' = Append(task_queue, task)
             /\ future' = [future EXCEPT ![task] = "pending"]
             /\ response' = [response EXCEPT ![task] = process_request("pending")]
             /\ set_calls' = set_calls
             /\ IF ~is_processing_queue
                THEN /\ \E d \in Processors : proc[d].pc = "none"
                     /\ proc' = [proc EXCEPT ![NewProcessor].pc = "created"]
                     /\ queue_processor_task' = NewProcessor
                ELSE UNCHANGED <<proc, queue_processor_task>>
    /\ UNCHANGED <<poolVars, is_processing_queue, must_cancel, stop_waiting,
                   shutdown_called, dequeued, failed_on>>

(***************************************************************************)
(* The _process_queue coroutines.  proc[d].pc is the suspension point:     *)
(*   "none"            not created                                         *)
(*   "created"         created by create_task, body not yet entered        *)
(*   "queue_sleep"     asyncio.sleep(0.1), queue was empty      (line 370) *)
(*   "instance_sleep"  asyncio.sleep(0.5), no idle instance     (line 412) *)
(*   "inference"       run_in_executor(_inference_sync)         (line 452) *)
(*   "error_sleep"     asyncio.sleep(1.0), after a failure      (line 432) *)
(*   "done"            the coroutine has returned                          *)
(* task and instance are the locals of the loops; model tells whether the  *)
(* instance.model passed to _inference_sync was a loaded model.            *)
(***************************************************************************)
Suspended(pc, task, instance, model) ==
    [pc |-> pc, task |-> task, instance |-> instance, model |-> model]

\* Coroutine d is a _process_queue loop that was created and has not returned.
Running(d) == proc[d].pc \notin {"none", "done"}

\* One pass of the while loop of _process_queued_task, from registry state P
\* at time t up to the next await: acquire an instance and start the
\* inference, or sleep.
ProcessQueuedTask(d, task, P, t) ==
    IF idle_instances(P.instances) = {}
    THEN /\ proc' = [proc EXCEPT ![d] = Suspended("instance_sleep", task, 0, FALSE)]
         /\ SetPool(get_idle_instance(P, t).pool, t)
    ELSE \E t2 \in TimeAfter(t) :
            LET got == get_idle_instance(P, t2)
            IN  /\ proc' = [proc EXCEPT ![d] =
                        Suspended("inference", task, got.selected,
                                  P.instances[got.selected].model)]
                /\ SetPool(got.pool, t2)

\* Mutant of popleft: the head is read and left in the queue.
popleft_peek(queue) == [task |-> Head(queue), queue |-> queue]

\* task = self.task_queue.popleft(): the task taken and the queue left.
popleft(queue) == [task |-> Head(queue), queue |-> Tail(queue)]

\* One pass of the while loop of _process_queue, from registry state P at
\* time t up to the next await.
ProcessQueueLoop(d, P, t) ==
    IF task_queue = <<>>
    THEN /\ proc' = [proc EXCEPT ![d] = Suspended("queue_sleep", 0, 0, FALSE)]
         /\ SetPool(P, t)
         /\ UNCHANGED <<task_queue, dequeued>>
    ELSE /\ task_queue' = popleft(task_queue).queue
         /\ dequeued' = Append(dequeued, popleft(task_queue).task)
         /\ ProcessQueuedTask(d, popleft(task_queue).task, P, t)

\* The coroutine body is entered: the flag is set and the loop starts.
ProcessQueueStart(d) ==
    /\ report' = NoReport
    /\ UNCHANGED asrVars
    /\ UNCHANGED response
    /\ UNCHANGED ghostVars
    /\ proc[d].pc = "created"
    /\ ~must_cancel[d]
    /\ is_processing_queue' = TRUE
    /\ ProcessQueueLoop(d, Pool, now)
    /\ UNCHANGED <<queue_processor_task, future, must_cancel, stop_waiting,
                   shutdown_called, set_calls, failed_on>>

\* The sleep on an empty queue ends.
QueueSleepEnds(d) ==
    /\ report' = NoReport
    /\ UNCHANGED asrVars
    /\ UNCHANGED response
    /\ UNCHANGED ghostVars
    /\ proc[d].pc = "queue_sleep"
    /\ ~must_cancel[d]
    /\ ProcessQueueLoop(d, Pool, now)
    /\ UNCHANGED <<is_processing_queue, queue_processor_task, future,
                   must_cancel, stop_waiting, shutdown_called, set_calls,
                   failed_on>>

\* The sleep for an idle instance ends: the same task tries again.
InstanceSleepEnds(d) ==
    /\ report' = NoReport
    /\ UNCHANGED asrVars
    /\ UNCHANGED response
    /\ UNCHANGED ghostVars
    /\ proc[d].pc = "instance_sleep"
    /\ ~must_cancel[d]
    /\ ProcessQueuedTask(d, proc[d].task, Pool, now)
    /\ UNCHANGED <<task_queue, is_processing_queue, queue_processor_task,
                   future, must_cancel, stop_waiting, shutdown_called,
                   histVars>>

\* The sleep after a failed inference ends: the same task tries again.
ErrorSleepEnds(d) ==
    /\ report' = NoReport
    /\ UNCHANGED asrVars
    /\ UNCHANGED response
    /\ UNCHANGED ghostVars
    /\ proc[d].pc = "error_sleep"
    /\ ~must_cancel[d]
    /\ ProcessQueuedTask(d, proc[d].task, Pool, now)
    /\ UNCHANGED <<task_queue, is_processing_queue, queue_processor_task,
                   future, must_cancel, stop_waiting, shutdown_called,
                   histVars>>

\* _inference_sync returned a text: release the instance, resolve the future
\* and go on with the loop.  set_result on a future that is already done
\* raises InvalidStateError, and so does the set_exception of the handler:
\* the error leaves the loop through line 386 and the coroutine returns.
InferenceSucceeds(d) ==
    /\ report' = NoReport
    /\ UNCHANGED asrVars
    /\ UNCHANGED ghostVars
    /\ proc[d].pc = "inference"
    /\ proc[d].model
    /\ ~must_cancel[d]
    /\ \E t \in TimeAfter(now) :
        LET P == release_instance(Pool, proc[d].instance, t)
            task == proc[d].task
        IN  IF future[task] = "pending"
            THEN /\ future' = [future EXCEPT ![task] = "result"]
                 /\ response' = [response EXCEPT ![task] = process_request("result")]
                 /\ set_calls' = Append(set_calls, [task |-> task, kind |-> "result"])
                 /\ ProcessQueueLoop(d, P, t)
                 /\ UNCHANGED is_processing_queue
            ELSE /\ set_calls' = set_calls \o <<[task |-> task, kind |-> "result"],
                                                [task |-> task, kind |-> "exception"]>>
                 /\ proc' = [proc EXCEPT ![d] = Suspended("done", 0, 0, FALSE)]
                 /\ is_processing_queue' = FALSE
                 /\ SetPool(P, t)
                 /\ UNCHANGED <<future, task_queue, dequeued, response>>
    /\ UNCHANGED <<queue_processor_task, must_cancel, stop_waiting,
                   shutdown_called, failed_on>>

\* Mutant of InferenceFails: the exception leaves _process_queued_task, and
\* the handler of _process_queue sets it on the future of the task.
InferenceFails_raised(d) ==
    /\ report' = NoReport
    /\ UNCHANGED asrVars
    /\ ever_error' = ever_error \cup {proc[d].instance}
    /\ UNCHANGED queued_at_shutdown
    /\ proc[d].pc = "inference"
    /\ ~must_cancel[d]
    /\ SetPool(handle_instance_error(Pool, proc[d].instance), now)
    /\ proc' = [proc EXCEPT ![d] = Suspended("queue_sleep", 0, 0, FALSE)]
    /\ failed_on' = [failed_on EXCEPT ![proc[d].task] = @ \cup {proc[d].instance}]
    /\ future' = [future EXCEPT ![proc[d].task] = "exception"]
    /\ response' = [response EXCEPT ![proc[d].task] = process_request("exception")]
    /\ set_calls' = Append(set_calls, [task |-> proc[d].task, kind |-> "exception"])
    /\ UNCHANGED <<task_queue, is_processing_queue, queue_processor_task,
                   must_cancel, stop_waiting, shutdown_called, dequeued>>

\* _inference_sync raised (always, when the model passed was None): the
\* instance is marked as failed and the task sleeps before it tries again.
InferenceFails(d) ==
    /\ report' = NoReport
    /\ UNCHANGED asrVars
    /\ UNCHANGED response
    /\ ever_error' = ever_error \cup {proc[d].instance}
    /\ UNCHANGED queued_at_shutdown
    /\ proc[d].pc = "inference"
    /\ ~must_cancel[d]
    /\ SetPool(handle_instance_error(Pool, proc[d].instance), now)
    /\ proc' = [proc EXCEPT ![d] = Suspended("error_sleep", proc[d].task, 0, FALSE)]
    /\ failed_on' = [failed_on EXCEPT ![proc[d].task] = @ \cup {proc[d].instance}]
    /\ UNCHANGED <<task_queue, is_processing_queue, queue_processor_task,
                   future, must_cancel, stop_waiting, shutdown_called,
                   set_calls, dequeued>>

\* A cancelled coroutine resumes with CancelledError at its await: the error
\* passes the `except Exception` handlers and ends the loop (lines 384-390).
\* A coroutine cancelled before it was entered runs none of its body.
ProcessQueueCancelled(d) ==
    /\ report' = NoReport
    /\ UNCHANGED asrVars
    /\ UNCHANGED response
    /\ UNCHANGED ghostVars
    /\ Running(d)
    /\ must_cancel[d]
    /\ proc' = [proc EXCEPT ![d] = Suspended("done", 0, 0, FALSE)]
    /\ must_cancel' = [must_cancel EXCEPT ![d] = FALSE]
    /\ is_processing_queue' =
         IF proc[d].pc = "created" THEN is_processing_queue ELSE FALSE
    /\ UNCHANGED <<poolVars, task_queue, queue_processor_task, future,
                   stop_waiting, shutdown_called, histVars>>

(***************************************************************************)
(* stop_queue_processor: cancel the recorded coroutine and await it.       *)
(***************************************************************************)
StopQueueProcessor ==
    /\ report' = NoReport
    /\ UNCHANGED asrVars
    /\ UNCHANGED response
    /\ UNCHANGED ghostVars
    /\ stop_waiting = 0
    /\ queue_processor_task # 0
    /\ IF Running(queue_processor_task)
       THEN /\ must_cancel' = [must_cancel EXCEPT ![queue_processor_task] = TRUE]
            /\ stop_waiting' = queue_processor_task
            /\ UNCHANGED queue_processor_task
       ELSE /\ queue_processor_task' = 0
            /\ UNCHANGED <<must_cancel, stop_waiting>>
    /\ UNCHANGED <<poolVars, task_queue, is_processing_queue, future, proc,
                   shutdown_called, histVars>>

\* The awaited coroutine has returned: self.queue_processor_task = None.
StopQueueProcessorReturns ==
    /\ report' = NoReport
    /\ UNCHANGED asrVars
    /\ UNCHANGED response
    /\ UNCHANGED ghostVars
    /\ stop_waiting # 0
    /\ ~Running(stop_waiting)
    /\ queue_processor_task' = 0
    /\ stop_waiting' = 0
    /\ UNCHANGED <<poolVars, task_queue, is_processing_queue, future, proc,
                   must_cancel, shutdown_called, histVars>>

(***************************************************************************)
(* The monitoring operations and the endpoints that call them              *)
(* (api_multi_instance.py /health and /stats).  The values keep the fields *)
(* computed from pool state; a ratio a / b is kept as the pair <<a, b>>.   *)
(***************************************************************************)
Count(S) == Cardinality(S)

\* check_instance of health_check: healthy unless instance.model is None.
check_instance(inst, id) ==
    IF ~inst.model
    THEN [instance_id |-> id, healthy |-> FALSE, reason |-> "Model not loaded"]
    ELSE [instance_id |-> id, healthy |-> TRUE, status |-> inst.status]

health_check(insts) ==
    LET results == [i \in DOMAIN insts |-> check_instance(insts[i], i)]
        healthy_count == Count({i \in DOMAIN insts : results[i].healthy})
    IN  [total_instances |-> Len(insts),
         healthy_instances |-> healthy_count,
         unhealthy_instances |-> Len(insts) - healthy_count,
         health_details |-> results]

get_instance_stats(P) ==
    [total_instances |-> Len(P.instances),
     total_requests |-> P.total_requests,
     successful_requests |-> P.successful_requests,
     failed_requests |-> P.failed_requests,
     success_rate |-> <<P.successful_requests,
                        IF P.total_requests > 1 THEN P.total_requests ELSE 1>>,
     instances |-> [i \in DOMAIN P.instances |->
                      [instance_id |-> i,
                       status |-> P.instances[i].status,
                       request_count |-> P.instances[i].request_count,
                       error_count |-> P.instances[i].error_count,
                       last_used |-> P.instances[i].last_used]]]

get_pool_status(insts) ==
    LET status_counts ==
            [st \in InstanceStatus |-> Count({i \in DOMAIN insts : insts[i].status = st})]
    IN  [pool_size |-> Len(insts),
         status_distribution |-> status_counts,
         available_instances |-> status_counts["idle"]]

get_queue_status(queue, processing) ==
    [queue_capacity |-> queue_capacity,
     queue_size |-> Len(queue),
     queue_utilization |-> <<Len(queue), queue_capacity>>,
     is_processing |-> processing]

\* The state of the pool, of its coroutines and of the process_request calls.
stateVarsOfPool == <<instances, task_queue, is_processing_queue, queue_processor_task,
                     total_requests, successful_requests, failed_requests, future,
                     proc, must_cancel, stop_waiting, now, shutdown_called,
                     histVars, ghostVars, response>>

\* Everything but the report of the monitoring endpoints.
stateVars == <<instances, task_queue, is_processing_queue, queue_processor_task,
               total_requests, successful_requests, failed_requests, future,
               proc, must_cancel, stop_waiting, now, shutdown_called,
               histVars, ghostVars, response, asrVars>>

\* GET /health: await model_pool.health_check().  A call that directly follows
\* another monitoring call sees the state that call saw, and is left out.
Health ==
    /\ report = NoReport
    /\ report' = [op |-> "health_check", value |-> health_check(instances)]
    /\ UNCHANGED stateVars

\* Mutant of Stats: reading the instances stamps their last_used.
Stats_update_last_used ==
    /\ report = NoReport
    /\ report' = [op |-> "stats",
                  model_pool_stats |-> get_instance_stats(Pool),
                  pool_status |-> get_pool_status(instances),
                  queue_status |-> get_queue_status(task_queue, is_processing_queue)]
    /\ instances' = [i \in InstanceIds |-> [instances[i] EXCEPT !.last_used = now]]
    /\ UNCHANGED <<task_queue, is_processing_queue, queue_processor_task,
                   total_requests, successful_requests, failed_requests, future,
                   proc, must_cancel, stop_waiting, now, shutdown_called,
                   histVars, ghostVars, response, asrVars>>

\* GET /stats: get_instance_stats(), get_pool_status(), get_queue_status().
Stats ==
    /\ report = NoReport
    /\ report' = [op |-> "stats",
                  model_pool_stats |-> get_instance_stats(Pool),
                  pool_status |-> get_pool_status(instances),
                  queue_status |-> get_queue_status(task_queue, is_processing_queue)]
    /\ UNCHANGED stateVars

(***************************************************************************)
(* The specifications.                                                     *)
(***************************************************************************)
Next ==
    \/ \E i \in InstanceIds : LoadSucceeds(i)
    \/ \E i \in InstanceIds : LoadFails(i)
    \/ EnqueueTask
    \/ \E d \in Processors : ProcessQueueStart(d)
    \/ \E d \in Processors : QueueSleepEnds(d)
    \/ \E d \in Processors : InstanceSleepEnds(d)
    \/ \E d \in Processors : ErrorSleepEnds(d)
    \/ \E d \in Processors : InferenceSucceeds(d)
    \/ \E d \in Processors : InferenceFails(d)
    \/ \E d \in Processors : ProcessQueueCancelled(d)
    \/ StopQueueProcessor
    \/ StopQueueProcessorReturns
    \/ Shutdown
    \/ Health
    \/ Stats

Spec == Init /\ [][Next]_vars

TypeOK ==
    /\ \A i \in InstanceIds : instances[i].status \in InstanceStatus
    /\ Len(task_queue) <= MaxTasks
    /\ is_processing_queue \in BOOLEAN
    /\ queue_processor_task \in 0..MaxProcessors

\* The event loop runs every coroutine that is ready, every sleep ends, and
\* every executor call (model load, inference) returns.  Nothing obliges a
\* caller to submit, to stop the processor or to shut the pool down.
Fairness ==
    /\ \A d \in Processors :
        /\ WF_vars(ProcessQueueStart(d))
        /\ WF_vars(QueueSleepEnds(d))
        /\ WF_vars(InstanceSleepEnds(d))
        /\ WF_vars(ErrorSleepEnds(d))
        /\ WF_vars(InferenceSucceeds(d) \/ InferenceFails(d))
        /\ WF_vars(ProcessQueueCancelled(d))
    /\ WF_vars(\E i \in InstanceIds : LoadSucceeds(i) \/ LoadFails(i))
    /\ WF_vars(StopQueueProcessorReturns)

FairSpec == Spec /\ Fairness

(***************************************************************************)
(* The /asr handler (api_multi_instance.py:269-419): the segments of the   *)
(* voice activity detection are cut by create_optimal_segments, one        *)
(* process_segment_async call per piece is gathered, and the SRT entries   *)
(* are built from the results.  The handler is checked for every outcome   *)
(* and every order of completion of its process_request calls: what a call *)
(* returns is an input here.  Times are integers, in milliseconds.         *)
(***************************************************************************)
\* The outputs of the VAD: [start, end] pairs with start < end, in order of
\* time and without overlap.
VadOutputs ==
    LET Pairs == {<<a, b>> : a \in 0..MaxTime, b \in 0..MaxTime}
        Lists == UNION {[1..n -> {p \in Pairs : p[1] < p[2]}] : n \in 0..MaxVadSegments}
    IN  {segs \in Lists : \A k \in 1..(Len(segs) - 1) : segs[k][2] <= segs[k + 1][1]}

Max(a, b) == IF a >= b THEN a ELSE b

\* Mutant of segment_pieces: the last piece is cut like the others.
segment_pieces_even(seg, max_dur) ==
    LET start_time == seg[1]
        end_time == seg[2]
        duration == end_time - start_time
    IN  IF duration > max_dur
        THEN LET num_segments == Max(2, (duration \div max_dur) + 1)
                 segment_duration == duration \div num_segments
             IN  [i \in 1..num_segments |->
                    <<start_time + (i - 1) * segment_duration,
                      start_time + i * segment_duration>>]
        ELSE << <<start_time, end_time>> >>

\* The body of the loop of create_optimal_segments: the pieces appended for
\* one segment.  int(duration / max_duration) is the floor of the quotient;
\* piece i of the source (from 0) is piece i + 1 here.
segment_pieces(seg, max_dur) ==
    LET start_time == seg[1]
        end_time == seg[2]
        duration == end_time - start_time
    IN  IF duration > max_dur
        THEN LET num_segments == Max(2, (duration \div max_dur) + 1)
                 segment_duration == duration \div num_segments
             IN  [i \in 1..num_segments |->
                    <<start_time + (i - 1) * segment_duration,
                      IF i = num_segments THEN end_time
                      ELSE start_time + i * segment_duration>>]
        ELSE << <<start_time, end_time>> >>

RECURSIVE create_optimal_segments(_, _)
create_optimal_segments(segments, max_dur) ==
    IF segments = <<>> THEN <<>>
    ELSE segment_pieces(Head(segments), max_dur)
            \o create_optimal_segments(Tail(segments), max_dur)

\* A slot of gather whose call has not returned.
Pending == [pending |-> TRUE]

\* What a process_segment_async call can come to: a text that is not empty
\* once stripped, an empty text, a failure (process_request returned False,
\* or the export raised), or an exception that `except Exception` lets
\* through, which gather returns in place of the dict.
Outcomes == {"text", "empty", "failed", "raised"}

\* The value gather holds for segment i (position i, index i - 1) on an
\* outcome.  The text of a segment is a sequence of symbols; a text that is
\* not empty is taken to be the one symbol that names its segment.
process_segment_async(i, seg, outcome) ==
    IF outcome = "raised" THEN [exception |-> "CancelledError"]
    ELSE [index |-> i - 1, start_time |-> seg[1], end_time |-> seg[2],
          text |-> IF outcome = "text" THEN <<i - 1>> ELSE <<>>,
          success |-> outcome \in {"text", "empty"}]

\* isinstance(result, dict)
is_dict(result) == "index" \in DOMAIN result

\* valid_results: the dicts among segment_results, in the order of gather.
valid_results(results) == SelectSeq(results, is_dict)

\* results with r inserted after the entries whose index is not larger.
RECURSIVE insert_by_index(_, _)
insert_by_index(r, results) ==
    IF results = <<>> THEN <<r>>
    ELSE IF Head(results).index <= r.index
         THEN <<Head(results)>> \o insert_by_index(r, Tail(results))
         ELSE <<r>> \o results

\* valid_results.sort(key=lambda x: x["index"]): a stable sort.
RECURSIVE sort_by_index(_)
sort_by_index(results) ==
    IF results = <<>> THEN <<>>
    ELSE insert_by_index(results[Len(results)],
                         sort_by_index(SubSeq(results, 1, Len(results) - 1)))

\* Mutant of build_srts: an entry is numbered by the index of its segment.
RECURSIVE build_srts_by_index(_, _)
build_srts_by_index(results, entries) ==
    IF results = <<>> THEN entries
    ELSE LET result == Head(results)
         IN  build_srts_by_index(Tail(results),
                IF result.success /\ result.text # <<>>
                THEN Append(entries, [number |-> result.index + 1,
                                      start_time |-> result.start_time,
                                      end_time |-> result.end_time,
                                      text |-> result.text])
                ELSE entries)

\* The loop that builds srts: an entry is its number, the two times handed
\* to ms_to_time_string and the text.
RECURSIVE build_srts(_, _)
build_srts(results, entries) ==
    IF results = <<>> THEN entries
    ELSE LET result == Head(results)
         IN  build_srts(Tail(results),
                IF result.success /\ result.text # <<>>
                THEN Append(entries, [number |-> Len(entries) + 1,
                                      start_time |-> result.start_time,
                                      end_time |-> result.end_time,
                                      text |-> result.text])
                ELSE entries)

\* A request arrives and the VAD has returned its segments.
AsrInit ==
    /\ PoolInit
    /\ num_instances = 1
    /\ asr_pc = "vad"
    /\ vad_segments \in VadOutputs
    /\ max_duration \in 1..MaxDuration
    /\ optimal_segments = <<>>
    /\ segment_results = <<>>
    /\ srts = <<>>
    /\ out_of_order = FALSE

\* optimal_segments = create_optimal_segments(...), then one
\* process_segment_async coroutine per piece is handed to gather.
CreateOptimalSegments ==
    /\ asr_pc = "vad"
    /\ optimal_segments' = create_optimal_segments(vad_segments, max_duration)
    /\ segment_results' = [i \in DOMAIN optimal_segments' |-> Pending]
    /\ asr_pc' = "gather"
    /\ UNCHANGED <<vad_segments, max_duration, srts, out_of_order>>
    /\ UNCHANGED <<stateVarsOfPool, report>>

\* The process_segment_async call of segment i returns or raises.
SegmentCompletes(i) ==
    /\ asr_pc = "gather"
    /\ segment_results[i] = Pending
    /\ \E outcome \in Outcomes :
        segment_results' = [segment_results EXCEPT
                               ![i] = process_segment_async(i, optimal_segments[i], outcome)]
    /\ out_of_order' = (out_of_order \/ \E j \in 1..(i - 1) : segment_results[j] = Pending)
    /\ UNCHANGED <<asr_pc, vad_segments, max_duration, optimal_segments, srts>>
    /\ UNCHANGED <<stateVarsOfPool, report>>

\* gather returns once every call is done: the results are filtered,
\* sorted by index and turned into the SRT entries.
GatherReturns ==
    /\ asr_pc = "gather"
    /\ \A i \in DOMAIN segment_results : segment_results[i] # Pending
    /\ srts' = build_srts(sort_by_index(valid_results(segment_results)), <<>>)
    /\ asr_pc' = "done"
    /\ UNCHANGED <<vad_segments, max_duration, optimal_segments, segment_results,
                   out_of_order>>
    /\ UNCHANGED <<stateVarsOfPool, report>>

AsrNext ==
    \/ CreateOptimalSegments
    \/ \E i \in DOMAIN segment_results : SegmentCompletes(i)
    \/ GatherReturns

AsrSpec == AsrInit /\ [][AsrNext]_vars

(***************************************************************************)
(* Vocabulary of the properties.                                           *)
(***************************************************************************)
Range(seq) == {seq[k] : k \in DOMAIN seq}

\* Position of the first occurrence of x in seq (0 when absent).
Position(seq, x) ==
    IF x \in Range(seq) THEN CHOOSE k \in DOMAIN seq : seq[k] = x /\ \A j \in 1..(k - 1) : seq[j] # x
    ELSE 0

\* The set_result / set_exception calls made on the future of task t.
SetCallsOn(t) == {k \in DOMAIN set_calls : set_calls[k].task = t}

\* Task t was appended to the queue by enqueue_task.
Admitted(t) == future[t] \in {"pending", "result", "exception"}

\* The future of task t is done.
Resolved(t) == future[t] \in {"result", "exception", "queue_full"}

\* The instances bound to a task by a running coroutine.
HeldInstances == {proc[d].instance : d \in {e \in Processors : proc[e].pc = "inference"}}

BusyInstances == {i \in InstanceIds : instances[i].status = "busy"}

(***************************************************************************)
(* C1 -- Every task appended to the queue by enqueue_task eventually has   *)
(* its future resolved, under fairness of the processor loop and of the    *)
(* completion of inference.                                                *)
(* Violated: a task whose inference failed on the last usable instance     *)
(* polls get_idle_instance for ever, and shutdown() resolves no future.    *)
(***************************************************************************)
C1_AdmittedTaskEventuallyResolved ==
    \A t \in Tasks : (future[t] = "pending") ~> (future[t] # "pending")

(***************************************************************************)
(* C2 -- The future of a task is resolved at most once: no future gets a   *)
(* second set_result or set_exception, and a task rejected as queue-full   *)
(* never reaches the queue or a processor.                                 *)
(***************************************************************************)
C2_FutureResolvedAtMostOnce ==
    \A t \in Tasks :
        /\ Cardinality(SetCallsOn(t)) <= 1
        /\ (future[t] = "queue_full") =>
              /\ t \notin Range(task_queue)
              /\ t \notin Range(dequeued)
              /\ \A d \in Processors : proc[d].task # t

\* A task was rejected as queue-full while two others were each resolved by
\* a processor.
C2_Witness ==
    \E t \in Tasks :
        /\ future[t] = "queue_full"
        /\ Cardinality({u \in Tasks : future[u] = "result"}) >= 2

(***************************************************************************)
(* C3 -- An instance is bound to at most one task at a time: while a       *)
(* coroutine holds an instance (from get_idle_instance to release_instance *)
(* or handle_instance_error) the instance is not idle, so no other caller  *)
(* obtains it, and no two coroutines hold the same instance.               *)
(***************************************************************************)
C3_InstanceHeldByOneTask ==
    \A d \in Processors :
        proc[d].pc = "inference" =>
            /\ proc[d].instance \in InstanceIds
            /\ instances[proc[d].instance].status # "idle"
            /\ \A e \in Processors :
                  (e # d /\ proc[e].pc = "inference") =>
                      proc[e].instance # proc[d].instance

\* Two coroutines are each running an inference, on different instances.
C3_Witness ==
    \E d, e \in Processors :
        /\ d # e
        /\ proc[d].pc = "inference"
        /\ proc[e].pc = "inference"
        /\ proc[d].instance # proc[e].instance

(***************************************************************************)
(* C4 -- The task queue never holds more than queue_capacity tasks.        *)
(***************************************************************************)
C4_QueueWithinCapacity == Len(task_queue) <= queue_capacity

\* The queue is full and an enqueue_task call has been rejected.
C4_Witness ==
    /\ Len(task_queue) = queue_capacity
    /\ \E t \in Tasks : future[t] = "queue_full"

(***************************************************************************)
(* C5 -- enqueue_task is decided by the queue length alone: below capacity *)
(* the task is appended at the tail and its future is pending; at capacity *)
(* the future is failed with the queue-full error, the queue is unchanged  *)
(* and the task is never in the queue nor taken by a processor.            *)
(***************************************************************************)
C5_EnqueueDecidedByLength ==
    /\ [][\A t \in Tasks :
            (future[t] = "none" /\ future'[t] # "none") =>
                IF Len(task_queue) < queue_capacity
                THEN /\ task_queue' = Append(task_queue, t)
                     /\ future'[t] = "pending"
                ELSE /\ Len(task_queue) = queue_capacity
                     /\ future'[t] = "queue_full"
                     /\ task_queue' = task_queue
                     /\ dequeued' = dequeued
                     /\ \A d \in Processors : proc'[d].task # t]_vars
    /\ [](\A t \in Tasks :
            future[t] = "queue_full" =>
                t \notin Range(task_queue) \cup Range(dequeued))

\* One call was admitted and is still queued behind another, one was rejected.
C5_Witness ==
    /\ \E t \in Tasks : future[t] = "queue_full"
    /\ \E t \in Tasks : future[t] = "pending" /\ t \in Range(task_queue)
                          /\ Position(task_queue, t) = Len(task_queue)
                          /\ Len(task_queue) >= 2

(***************************************************************************)
(* C6 -- At most one _process_queue loop exists at any time, however many  *)
(* enqueue_task calls are made.                                            *)
(* Violated: is_processing_queue is set by the coroutine itself, so every  *)
(* enqueue_task call made before the first coroutine is entered creates    *)
(* another one.                                                            *)
(***************************************************************************)
C6_AtMostOneProcessQueueLoop ==
    Cardinality({d \in Processors : Running(d)}) <= 1

(***************************************************************************)
(* C7 -- Tasks are processed one at a time: at most one dequeued task is   *)
(* in its acquire/infer/release sequence, and at most one instance is      *)
(* busy.                                                                   *)
(* Violated through the several loops of C6, each with a task of its own.  *)
(***************************************************************************)
C7_OneTaskInFlight ==
    /\ Cardinality({d \in Processors : proc[d].task # 0}) <= 1
    /\ Cardinality(BusyInstances) <= 1

(***************************************************************************)
(* C8 -- Tasks are served in FIFO order: of two admitted tasks, the one    *)
(* admitted first is dequeued first and its future is resolved first.      *)
(* Violated through the several loops of C6: the dequeue order is the      *)
(* admission order, the order of resolution is not.                        *)
(***************************************************************************)
C8_ServedInFifoOrder ==
    \A a, b \in Tasks :
        (a < b /\ Admitted(a) /\ Admitted(b)) =>
            /\ b \in Range(dequeued) =>
                  /\ a \in Range(dequeued)
                  /\ Position(dequeued, a) < Position(dequeued, b)
            /\ future[b] = "result" => future[a] = "result"

(***************************************************************************)
(* C9 -- A failed inference does not fail the task: in the step of the     *)
(* failure the future stays pending, the instance becomes Error and the    *)
(* coroutine keeps the same task for another attempt; and a task is never  *)
(* served again by an instance its inference has failed on.                *)
(***************************************************************************)
C9_FailedInferenceRetriesElsewhere ==
    /\ [][\A d \in Processors :
            (proc[d].pc = "inference" /\ proc'[d].pc = "error_sleep") =>
                /\ future[proc[d].task] = "pending"
                /\ future'[proc[d].task] = "pending"
                /\ instances'[proc[d].instance].status = "error"
                /\ proc'[d].task = proc[d].task]_vars
    /\ [](\A d \in Processors :
            proc[d].pc = "inference" =>
                proc[d].instance \notin failed_on[proc[d].task])

\* A task whose inference failed on one instance is being served by another.
C9_Witness ==
    \E d \in Processors :
        /\ proc[d].pc = "inference"
        /\ failed_on[proc[d].task] # {}
        /\ \A i \in failed_on[proc[d].task] : instances[i].status = "error"

(***************************************************************************)
(* C10 -- Failure recovery: in a pool of one instance whose inference      *)
(* fails once, with a single task submitted, no shutdown and no stop of    *)
(* the processor, the task ends resolved with the text and the instance's  *)
(* error counter is 1.                                                     *)
(* Violated: the only instance stays Error, the task polls for ever.       *)
(***************************************************************************)
C10_RecoversAfterOneFailure ==
    (/\ []~shutdown_called
     /\ [](\A d \in Processors : ~must_cancel[d])
     /\ [](\A t \in Tasks : t > 1 => future[t] = "none")) =>
        ((/\ num_instances = 1
          /\ failed_on[1] = {1}
          /\ instances[1].error_count = 1
          /\ future[1] = "pending")
            ~> (future[1] = "result" /\ instances[1].error_count = 1))

(***************************************************************************)
(* C11 -- When the pool is shut down while tasks sit in the queue, every   *)
(* one of those tasks has its future resolved with a pool-shutdown error   *)
(* and none is resolved with a result.                                     *)
(* Violated: shutdown() touches no future; the queued tasks stay pending.  *)
(***************************************************************************)
C11_QueuedTasksFailOnShutdown ==
    \A t \in Tasks :
        /\ [](t \in queued_at_shutdown => future[t] # "result")
        /\ (t \in queued_at_shutdown) ~> (future[t] = "exception")

(***************************************************************************)
(* C12 -- A stop or a shutdown ends the processor only between tasks: a    *)
(* task that was dequeued and whose future is unresolved is always still   *)
(* held by a running _process_queue loop.                                  *)
(* Violated: stop_queue_processor cancels the loop at whatever await it is *)
(* suspended in; the task it holds is dropped with its future pending.     *)
(***************************************************************************)
C12_DequeuedTaskNotAbandoned ==
    \A t \in Range(dequeued) :
        future[t] = "pending" =>
            \E d \in Processors : Running(d) /\ proc[d].task = t

(***************************************************************************)
(* C13 -- After shutdown() no enqueue_task call appends a task to the      *)
(* queue: every new submission is refused.                                 *)
(* Violated: enqueue_task does not look at any shutdown state.             *)
(***************************************************************************)
C13_NoAdmissionAfterShutdown ==
    [][shutdown_called =>
        \A t \in Tasks :
            future[t] = "none" =>
                /\ future'[t] # "pending"
                /\ t \notin Range(task_queue')]_vars

(***************************************************************************)
(* C14 -- Once the status of an instance has been Error, get_idle_instance *)
(* never returns that instance again.                                      *)
(* Violated: shutdown() marks a Busy instance Error, and the               *)
(* release_instance of its holder then marks it Idle.                      *)
(***************************************************************************)
C14_ErrorInstanceNeverSelected ==
    [][\A d \in Processors :
        (/\ total_requests' = total_requests + 1
         /\ proc'[d] # proc[d]
         /\ proc'[d].pc = "inference") =>
            proc'[d].instance \notin ever_error]_vars

(***************************************************************************)
(* C15 -- health_check reports an instance as healthy if and only if its   *)
(* status is neither Loading nor Error, and performs no inference and no   *)
(* acquisition.                                                            *)
(* Violated: check_instance tests only `instance.model is None`; an        *)
(* instance marked Error by handle_instance_error keeps its model and is   *)
(* reported healthy.                                                       *)
(***************************************************************************)
C15_HealthyIffUsableStatus ==
    [][report'.op = "health_check" =>
        /\ \A i \in InstanceIds :
              report'.value.health_details[i].healthy
                  <=> (instances[i].status \notin {"loading", "error"})
        /\ UNCHANGED <<instances, total_requests, proc>>]_vars

(***************************************************************************)
(* C16 -- process_request returns (True, text) exactly when the future of  *)
(* its task was resolved with the inference text, and (False, message)     *)
(* exactly when the task was rejected or the future was resolved with an   *)
(* error; a task rejected on a full queue has its failure returned in the  *)
(* rejecting step and is never handed to a processor; the call never       *)
(* raises.                                                                 *)
(***************************************************************************)
C16_ProcessRequestReturnsOutcome ==
    \A t \in Tasks :
        /\ response[t].pc # "raised"
        /\ (response[t].pc = "returned" /\ response[t].success) <=> future[t] = "result"
        /\ (response[t].pc = "returned" /\ ~response[t].success)
               <=> future[t] \in {"queue_full", "exception"}
        /\ response[t].pc = "returned" /\ response[t].success => response[t].value = "text"
        /\ future[t] = "queue_full" =>
               /\ response[t] = [pc |-> "returned", success |-> FALSE, value |-> "Queue full"]
               /\ t \notin Range(task_queue) \cup Range(dequeued)

\* One call has returned the text while another was rejected on a full queue.
C16_Witness ==
    \E t, u \in Tasks :
        /\ response[t] = [pc |-> "returned", success |-> TRUE, value |-> "text"]
        /\ response[u] = [pc |-> "returned", success |-> FALSE, value |-> "Queue full"]

(***************************************************************************)
(* C17 -- A call of health_check or of get_instance_stats,                 *)
(* get_pool_status and get_queue_status leaves the pool state as it was:   *)
(* the instances (status, counters, last_used), the request counters, the  *)
(* queue, the processing flag, the futures and the coroutines, in whatever *)
(* state of the pool and of the processors the call is made.               *)
(***************************************************************************)
C17_MonitoringLeavesStateUnchanged ==
    [][report'.op \in {"health_check", "stats"} => UNCHANGED stateVars]_vars

\* Statistics were read while an inference was in flight, a task was queued
\* and another coroutine was waiting for an instance.
C17_Witness ==
    /\ report.op = "stats"
    /\ task_queue # <<>>
    /\ \E d, e \in Processors :
          proc[d].pc = "inference" /\ proc[e].pc \in {"instance_sleep", "error_sleep"}

\* The step is an acquisition by coroutine d: get_idle_instance returned an
\* instance to it and the inference was started.
Acquires(d) ==
    /\ total_requests' = total_requests + 1
    /\ proc'[d] # proc[d]
    /\ proc'[d].pc = "inference"

\* The instance coroutine d releases in the step, if it returns from an inference.
Released(d) == IF proc[d].pc = "inference" THEN proc[d].instance ELSE 0

(***************************************************************************)
(* C18 -- Least recently used: whenever an instance is idle,               *)
(* get_idle_instance returns an idle instance whose last_used is minimal   *)
(* among the idle ones, and every acquisition made by a coroutine takes    *)
(* such an instance: one that was idle (or that the same step released),   *)
(* with a last_used no later than that of any instance left idle.          *)
(***************************************************************************)
C18_LeastRecentlyUsedSelected ==
    /\ [](idle_instances(instances) # {} =>
            LET s == get_idle_instance(Pool, now).selected
            IN  /\ s \in idle_instances(instances)
                /\ \A j \in idle_instances(instances) :
                       instances[s].last_used <= instances[j].last_used)
    /\ [][\A d \in Processors : Acquires(d) =>
            LET s == proc'[d].instance
            IN  /\ s \in InstanceIds
                /\ s = Released(d) \/ instances[s].status = "idle"
                /\ \A j \in InstanceIds \ {s} : instances'[j].status = "idle" =>
                       IF s = Released(d)
                       THEN now <= instances'[j].last_used
                       ELSE instances[s].last_used <= instances'[j].last_used]_vars

\* The only acquisition so far took instance 2 while instance 1, of lower
\* index but loaded later, stayed idle.
C18_Witness ==
    /\ num_instances = 2
    /\ total_requests = 1
    /\ \E d \in Processors : proc[d].pc = "inference" /\ proc[d].instance = 2
    /\ instances[1].status = "idle" /\ instances[1].request_count = 0
    /\ instances[1].last_used = 1

(***************************************************************************)
(* C19 -- get_idle_instance with no idle instance returns nothing and      *)
(* changes no state, no counter included; with exactly one idle instance   *)
(* it returns that instance and makes it busy, and a second call made      *)
(* right after returns nothing.  The same holds of the steps of the        *)
(* coroutines: one that finds no instance leaves the registry as it was,   *)
(* one that takes the only idle instance leaves none idle.                 *)
(***************************************************************************)
C19_AcquireWithNoneOrOneIdle ==
    /\ [](LET got == get_idle_instance(Pool, now)
              again == get_idle_instance(got.pool, now)
          IN  /\ idle_instances(instances) = {} => got.selected = 0 /\ got.pool = Pool
              /\ Cardinality(idle_instances(instances)) = 1 =>
                    /\ idle_instances(instances) = {got.selected}
                    /\ got.pool.instances[got.selected].status = "busy"
                    /\ again.selected = 0 /\ again.pool = got.pool)
    /\ [][\A d \in Processors :
            /\ (proc[d].pc # "instance_sleep" /\ proc'[d].pc = "instance_sleep") =>
                  /\ idle_instances(instances) = {}
                  /\ UNCHANGED <<instances, total_requests, successful_requests,
                                 failed_requests>>
            /\ (Acquires(d) /\ Released(d) = 0
                   /\ Cardinality(idle_instances(instances)) = 1) =>
                  /\ idle_instances(instances) = {proc'[d].instance}
                  /\ instances'[proc'[d].instance].status = "busy"
                  /\ idle_instances(instances') = {}]_vars

\* One coroutine holds the instance it took when it was the only idle one,
\* another found none and sleeps.
C19_Witness ==
    /\ idle_instances(instances) = {}
    /\ \E d, e \in Processors : proc[d].pc = "inference" /\ proc[e].pc = "instance_sleep"

\* The status changes the lifecycle of an instance allows.
AllowedStatusChanges ==
    {<<"loading", "idle">>, <<"loading", "error">>, <<"idle", "busy">>,
     <<"busy", "idle">>, <<"busy", "error">>}

(***************************************************************************)
(* C20 -- Every change of the status of an instance is one of              *)
(* Loading->Idle, Loading->Error, Idle->Busy, Busy->Idle, Busy->Error: no  *)
(* step moves an instance from Idle to Error or from Error to Idle.        *)
(* Violated: shutdown() sets every loaded instance, idle ones included, to *)
(* ERROR, and release_instance marks idle an instance that shutdown() set  *)
(* to ERROR while its inference was running.                               *)
(***************************************************************************)
C20_StatusChangesFollowLifecycle ==
    [][\A i \in InstanceIds :
          instances'[i].status # instances[i].status =>
              <<instances[i].status, instances'[i].status>> \in AllowedStatusChanges]_vars

(***************************************************************************)
(* C21 -- The request_count of an instance changes only in the step in     *)
(* which get_idle_instance selects that instance, and then by exactly 1:   *)
(* every acquisition counts, and a release, a failure, a load, shutdown()  *)
(* or the acquisition of another instance leaves it as it was.             *)
(***************************************************************************)
C21_RequestCountOnlyAtAcquisition ==
    [][\A i \in InstanceIds :
          LET acquired == \E d \in Processors : Acquires(d) /\ proc'[d].instance = i
          IN  instances'[i].request_count =
                  instances[i].request_count + (IF acquired THEN 1 ELSE 0)]_vars

\* Instance 1 served a request and was released, then instance 2 was taken:
\* each was counted once, at its acquisition.
C21_Witness ==
    /\ num_instances = 2
    /\ instances[1].status = "idle" /\ instances[1].request_count = 1
    /\ instances[2].status = "busy" /\ instances[2].request_count = 1
    /\ successful_requests = 1 /\ total_requests = 2

\* The step is the failure of the inference coroutine d was running: the
\* exception of _inference_sync reached the handler of _process_queued_task.
AttemptFails(d) == proc[d].pc = "inference" /\ proc'[d].pc = "error_sleep"

(***************************************************************************)
(* C22 -- Every failed inference attempt adds exactly 1 to the error_count *)
(* of the instance it ran on and exactly 1 to failed_requests, in the      *)
(* failing step, hence before the task sleeps and tries again.             *)
(***************************************************************************)
C22_FailedAttemptCounted ==
    [][\A d \in Processors : AttemptFails(d) =>
          LET i == proc[d].instance
          IN  /\ instances'[i].error_count = instances[i].error_count + 1
              /\ failed_requests' = failed_requests + 1
              /\ proc'[d].task = proc[d].task]_vars

\* A task failed on one instance, was counted, and is retried on another.
C22_Witness ==
    \E d \in Processors : \E i \in InstanceIds :
        /\ proc[d].pc = "inference"
        /\ i \in failed_on[proc[d].task]
        /\ instances[i].error_count = 1
        /\ failed_requests = 1

(***************************************************************************)
(* C23 -- Counter conservation: as long as shutdown() has not been called, *)
(* total_requests = successful_requests + failed_requests + the number of  *)
(* busy instances; hence successful_requests <= total_requests and the     *)
(* success_rate that get_instance_stats reports is at most 1.              *)
(***************************************************************************)
C23_CounterConservation ==
    ~shutdown_called =>
        /\ total_requests = successful_requests + failed_requests + Cardinality(BusyInstances)
        /\ successful_requests <= total_requests
        /\ LET rate == get_instance_stats(Pool).success_rate
           IN  rate[1] <= rate[2]

\* Requests have succeeded, failed and are in flight at the same time.
C23_Witness ==
    /\ ~shutdown_called
    /\ successful_requests >= 1
    /\ failed_requests >= 1
    /\ BusyInstances # {}

\* Sum of request_count over the instances 1..n.
RECURSIVE SumRequestCount(_)
SumRequestCount(n) ==
    IF n = 0 THEN 0 ELSE instances[n].request_count + SumRequestCount(n - 1)

(***************************************************************************)
(* C24 -- In every reachable state total_requests equals the sum of the    *)
(* request_count of all instances.                                         *)
(***************************************************************************)
C24_TotalIsSumOfRequestCounts ==
    total_requests = SumRequestCount(num_instances)

\* Three acquisitions were made, spread over two instances.
C24_Witness ==
    /\ num_instances = 2
    /\ total_requests = 3
    /\ instances[1].request_count >= 1
    /\ instances[2].request_count >= 1

(***************************************************************************)
(* C25 -- A _process_queue coroutine never resolves the future of a task   *)
(* with an error: a task that was appended to the queue has a future that  *)
(* is pending or holds a result, every set_exception call is the one of a  *)
(* rejection by enqueue_task, and process_request returns a failure only   *)
(* for a task rejected on a full queue.                                    *)
(***************************************************************************)
C25_DispatcherNeverFailsATask ==
    /\ \A t \in Range(task_queue) \cup Range(dequeued) : future[t] \in {"pending", "result"}
    /\ \A k \in DOMAIN set_calls :
          set_calls[k].kind = "exception" =>
              /\ future[set_calls[k].task] = "queue_full"
              /\ set_calls[k].task \notin Range(dequeued)
    /\ \A t \in Tasks :
          (response[t].pc = "returned" /\ ~response[t].success) =>
              future[t] = "queue_full" /\ response[t].value = "Queue full"

\* A task whose inference failed on an instance was resolved with a result
\* all the same, while another call was rejected on a full queue.
C25_Witness ==
    \E t, u \in Tasks :
        /\ failed_on[t] # {}
        /\ future[t] = "result"
        /\ response[u].pc = "returned" /\ ~response[u].success

\* Coroutine d has entered the body of _process_queue and has not left it.
LoopStarted(d) == proc[d].pc \notin {"none", "created", "done"}

(***************************************************************************)
(* C26 -- is_processing_queue is true in exactly the states in which some  *)
(* _process_queue loop has started and has not yet exited.                 *)
(* Violated: with two loops alive, the one that exits clears the flag      *)
(* while the other is still serving the queue.                             *)
(***************************************************************************)
C26_FlagTellsLoopRunning ==
    is_processing_queue <=> \E d \in Processors : LoopStarted(d)

\* The step is the return of stop_queue_processor: it sets
\* self.queue_processor_task = None, after the await of the cancelled
\* coroutine or at once when that coroutine was already done.
StopReturns == queue_processor_task # 0 /\ queue_processor_task' = 0

(***************************************************************************)
(* C27 -- When stop_queue_processor returns, no _process_queue loop is     *)
(* running (created and not yet returned), so that no task is dequeued     *)
(* until a later enqueue_task creates a new loop.                          *)
(* Violated: only the coroutine recorded in queue_processor_task is        *)
(* cancelled; the loops created before it go on dequeuing.                 *)
(***************************************************************************)
C27_NoLoopAfterStop ==
    [][StopReturns => \A d \in Processors : ~Running(d)']_vars

\* The positions of the segments that succeeded with a text that is not empty.
SucceededWithText ==
    {i \in DOMAIN segment_results :
        /\ is_dict(segment_results[i])
        /\ segment_results[i].success
        /\ segment_results[i].text # <<>>}

\* The k-th smallest element of the set I of numbers.
KthOf(I, k) == CHOOSE i \in I : Cardinality({j \in I : j <= i}) = k

(***************************************************************************)
(* C28 -- Whatever the order in which the segment requests of an /asr      *)
(* request complete, the SRT entries are those of the segments that        *)
(* succeeded with a text that is not empty, all of them and no other, in   *)
(* ascending order of segment index, numbered 1, 2, 3, ...                 *)
(***************************************************************************)
C28_SrtInSegmentOrder ==
    asr_pc = "done" =>
        /\ Len(srts) = Cardinality(SucceededWithText)
        /\ \A k \in DOMAIN srts :
              LET i == KthOf(SucceededWithText, k)
              IN  /\ srts[k].number = k
                  /\ srts[k].text = segment_results[i].text
                  /\ srts[k].start_time = optimal_segments[i][1]
                  /\ srts[k].end_time = optimal_segments[i][2]

\* The segments completed out of order, the first one gave no entry and at
\* least two others did.
C28_Witness ==
    /\ asr_pc = "done"
    /\ out_of_order
    /\ 1 \notin SucceededWithText
    /\ Len(srts) >= 2

(***************************************************************************)
(* C29 -- create_optimal_segments emits no piece longer than max_duration, *)
(* for every segment with integer bounds and every max_duration >= 1.      *)
(* Violated: the last piece takes the remainder of the integer division,   *)
(* e.g. (0, 5) with max_duration 2 gives [0,1], [1,2], [2,5].              *)
(***************************************************************************)
C29_NoPieceLongerThanMax ==
    \A k \in DOMAIN optimal_segments :
        optimal_segments[k][2] - optimal_segments[k][1] <= max_duration

\* The pieces lo..hi of optimal_segments are a partition of the segment seg.
PartitionOf(seg, lo, hi) ==
    /\ lo <= hi
    /\ optimal_segments[lo][1] = seg[1]
    /\ optimal_segments[hi][2] = seg[2]
    /\ \A j \in lo..hi : optimal_segments[j][1] <= optimal_segments[j][2]
    /\ \A j \in lo..(hi - 1) : optimal_segments[j][2] = optimal_segments[j + 1][1]
    /\ seg[2] - seg[1] <= max_duration => lo = hi

(***************************************************************************)
(* C30 -- create_optimal_segments partitions each input segment: the       *)
(* output is, input after input in the order of the input, a run of pieces *)
(* of which the first begins at start, each begins where the one before    *)
(* ended and the last ends at end; a segment no longer than max_duration   *)
(* gives the single piece (start, end).                                    *)
(***************************************************************************)
C30_PiecesPartitionEachSegment ==
    asr_pc \in {"gather", "done"} =>
        \E cuts \in [0..Len(vad_segments) -> 0..Len(optimal_segments)] :
            /\ cuts[0] = 0
            /\ cuts[Len(vad_segments)] = Len(optimal_segments)
            /\ \A k \in DOMAIN vad_segments :
                  PartitionOf(vad_segments[k], cuts[k - 1] + 1, cuts[k])

\* Of two segments, one was cut into three pieces or more and the other,
\* no longer than max_duration, was passed through.
C30_Witness ==
    /\ asr_pc = "gather"
    /\ Len(vad_segments) = 2
    /\ Len(optimal_segments) >= 4
    /\ \E k \in DOMAIN vad_segments : vad_segments[k][2] - vad_segments[k][1] <= max_duration

=============================================================================
